---- MODULE Spec2Model ----
(***************************************************************************)
(* Model of src/main.py: the preview downloader's batch loop main() and    *)
(* the filename sanitizer format_storage_hash().                           *)
(*                                                                         *)
(* Strings that the code inspects character by character (image hashes)    *)
(* are sequences of code points.  A JSON object is a record whose fields   *)
(* are options: <<>> is "key absent", <<v>> is "key present with value v"; *)
(* the JSON value null is None, a JSON string s is Some(s).                *)
(***************************************************************************)
EXTENDS Integers, Sequences, FiniteSets, TLC

VARIABLES
    filenames,           \* os.listdir(folder_path), the same in every run
    folders,             \* file system: base names whose Previews/<base> folder exists
    files,               \* file system: paths of the files inside the preview folders
    force_update,        \* main()'s parameter
    check_entire_model,  \* main()'s parameter
    run,                 \* number of the current invocation of main()
    pc,                  \* position of main()
    counter,             \* main()'s counter: entries taken from filenames so far
    decision,            \* what the loop head did with entry number counter
    response,            \* main()'s local: the last metadata response
    description,         \* main()'s local
    images,              \* main()'s local: the list under enumerate()
    i,                   \* main()'s local: the enumeration index of the next image
    trace,               \* operations performed for the current entry, in order
    faults,              \* number of failures the environment has injected
    startFolders,        \* folders as they were when the current run started
    forced,              \* the force_update flag of every run so far
    ended,               \* how every finished run ended: "done" or "crashed"
    failedEarly,         \* entries of this run whose hash or metadata retrieval failed
    san_string,          \* format_storage_hash: argument string
    san_length,          \* format_storage_hash: argument length
    san_once,            \* format_storage_hash(string, length), once computed
    san_twice            \* format_storage_hash applied to san_once, once computed

vars == <<filenames, folders, files, force_update, check_entire_model, run, pc,
          counter, decision, response, description, images, i, trace, faults,
          startFolders, forced, ended, failedEarly,
          san_string, san_length, san_once, san_twice>>

mainVars == <<filenames, folders, files, force_update, check_entire_model, run, pc,
              counter, decision, response, description, images, i, trace, faults,
              startFolders, forced, ended, failedEarly>>

sanVars == <<san_string, san_length, san_once, san_twice>>

(***************************************************************************)
(* Bounds                                                                  *)
(***************************************************************************)
MaxImages == 3      \* longest image list a record carries
MaxFaults == 1      \* failures injected over one behaviour
MaxRuns == 2        \* invocations of main() on the directory
MaxStrLen == 3      \* longest string handed to the sanitizer
MaxBound == 4       \* largest length bound handed to the sanitizer

HashLen == 32       \* the length main() passes to format_storage_hash

None == <<>>
Some(x) == <<x>>
Absent == <<>>
Present(v) == <<v>>
\* key in obj, and obj[key]
HasKey(obj, key) == obj[key] # Absent
Get(obj, key) == obj[key][1]

Min(a, b) == IF a <= b THEN a ELSE b
Max(a, b) == IF a >= b THEN a ELSE b

(***************************************************************************)
(* format_storage_hash                                                     *)
(***************************************************************************)
\* LegalChar as the pattern [^0-9a-zA-Z_.-] would have it: '.' gets through
LegalCharWithDot(c) ==
    \/ c >= 48 /\ c <= 57
    \/ c >= 97 /\ c <= 122
    \/ c >= 65 /\ c <= 90
    \/ c = 95
    \/ c = 45
    \/ c = 46

\* the characters the pattern [^0-9a-zA-Z_\-] does not match
LegalChar(c) ==
    \/ c >= 48 /\ c <= 57
    \/ c >= 97 /\ c <= 122
    \/ c >= 65 /\ c <= 90
    \/ c = 95
    \/ c = 45

\* re.sub(pattern, '_', string)
ReSub(string) ==
    [k \in 1..Len(string) |-> IF LegalChar(string[k]) THEN string[k] ELSE 95]

\* temp_string[:length], with Python's meaning of a negative length
Truncate(temp_string, length) ==
    IF length >= 0
    THEN SubSeq(temp_string, 1, Min(length, Len(temp_string)))
    ELSE SubSeq(temp_string, 1, Max(0, Len(temp_string) + length))

format_storage_hash(string, length) == Truncate(ReSub(string), length)

(***************************************************************************)
(* The directory                                                           *)
(***************************************************************************)
\* a directory entry, split as os.path.splitext splits it
Name(stem, ext) == [stem |-> stem, ext |-> ext]

\* the listings of the target directory: two candidate files that differ only
\* in extension around a file of another type, and two with different base names
Listings ==
    { <<Name("a", ".ckpt"), Name("n", ".txt"), Name("a", ".safetensors")>>,
      <<Name("a", ".safetensors"), Name("b", ".ckpt")>> }

\* the preview folders that may exist before the first run
InitialFolders == { {}, {"a"} }

\* filename.endswith(".ckpt") or filename.endswith(".safetensors")
IsCandidate(filename) == filename.ext \in {".ckpt", ".safetensors"}

\* os.path.splitext(filename)[0]
file_noext(filename) == filename.stem

\* Exists as a test of the description file instead of the folder
ExistsDescription(filename) ==
    [dir |-> filename.stem, idx |-> -1, hash |-> <<>>, ext |-> "md"] \in files

\* os.path.exists(folder_name), folder_name = <folder_path>/Previews/<file_noext>
Exists(filename) == file_noext(filename) \in folders

\* <folder_name>/<file_noext>.md
MdPath(filename) ==
    [dir |-> file_noext(filename), idx |-> -1, hash |-> <<>>, ext |-> "md"]

\* <folder_name>/<i>_<file_noext>.<formatted_hash>.png
ImagePath(filename, n, image_hash) ==
    [dir |-> file_noext(filename), idx |-> n,
     hash |-> format_storage_hash(image_hash, HashLen), ext |-> "png"]

(***************************************************************************)
(* The remote registry: what the two endpoints and the image host answer   *)
(***************************************************************************)
Html == "<p>x</p>"
Descriptions == { None, Some(""), Some(Html) }

\* the perceptual hash of the k-th image: a letter, '/', a digit
ImgHash(k) == <<96 + k, 47, 47 + k>>

Image(k) ==
    [url |-> Present([id |-> k, width |-> 100]), width |-> Present(512),
     hash |-> Present(ImgHash(k))]

\* the image record k with one of its keys missing
ImageWithout(k, key) == [Image(k) EXCEPT ![key] = Absent]

ImageList(n) == [k \in 1..n |-> Image(k)]

VersionBody(d, m, l) == [description |-> d, modelId |-> m, images |-> l]

NominalVersionResponses ==
    { [status |-> 200,
       json |-> VersionBody(Present(d), Present(7), Present(ImageList(n)))] :
        d \in Descriptions, n \in 0..MaxImages }

FaultyVersionResponses ==
    { [status |-> 404, json |-> VersionBody(Absent, Absent, Absent)],
      [status |-> 500,
       json |-> VersionBody(Present(Some(Html)), Present(7), Present(ImageList(1)))],
      [status |-> 200,
       json |-> VersionBody(Absent, Present(7), Present(ImageList(1)))],
      [status |-> 200,
       json |-> VersionBody(Present(Some(Html)), Present(7), Absent)] }
    \cup
    { [status |-> 200,
       json |-> VersionBody(Present(Some(Html)), Absent, Present(ImageList(1)))] }
    \cup
    { [status |-> 200,
       json |-> VersionBody(Present(Some(Html)), Present(7),
                            Present([ImageList(n) EXCEPT ![n] = ImageWithout(n, key)]))] :
        n \in 1..MaxImages, key \in {"url", "hash"} }

VersionEntry(l) == [images |-> l]

ModelBody(d, vs) == [description |-> d, modelVersions |-> vs]

\* the first n images in document order: no version at all, one version that
\* holds them all, or a version with the first image and one with the rest
VersionSplits ==
    { <<>> }
    \cup { <<VersionEntry(Present(ImageList(n)))>> : n \in 0..MaxImages }
    \cup { <<VersionEntry(Present(SubSeq(ImageList(n), 1, 1))),
             VersionEntry(Present(SubSeq(ImageList(n), 2, n)))>> : n \in 1..MaxImages }

NominalModelResponses ==
    { [status |-> 200, json |-> ModelBody(Present(d), Present(vs))] :
        d \in Descriptions, vs \in VersionSplits }

FaultyModelResponses ==
    { [status |-> 404, json |-> ModelBody(Absent, Absent)],
      [status |-> 500,
       json |-> ModelBody(Present(Some(Html)), Present(<<VersionEntry(Present(ImageList(1)))>>))],
      [status |-> 200,
       json |-> ModelBody(Absent, Present(<<VersionEntry(Present(ImageList(1)))>>))],
      [status |-> 200, json |-> ModelBody(Present(Some(Html)), Absent)],
      [status |-> 200,
       json |-> ModelBody(Present(Some(Html)),
                          Present(<<VersionEntry(Present(ImageList(1))), VersionEntry(Absent)>>))] }

NoResponse == [status |-> 0, json |-> <<>>]

\* markdownify.markdownify(description, ...) on the descriptions of the registry
Markdownify(html) == IF html = Html THEN "x" ELSE html

(***************************************************************************)
(* main(): the loop over the directory                                     *)
(***************************************************************************)
\* one operation of the current entry: op is the call, arg the image index or
\* the source line of the print, data what was sent or written, ok whether the
\* call returned without raising
Ev(op, arg, data, ok) == [op |-> op, arg |-> arg, data |-> data, ok |-> ok]

\* the entry the loop body is working on
filename == filenames[counter]

\* the environment injects one more failure
Fault == faults < MaxFaults /\ faults' = faults + 1
NoFault == faults' = faults

\* except ...: print(...); continue, for the outer loop
Continue(events) ==
    /\ pc' = "loop"
    /\ trace' = trace \o events

\* an exception no handler of main() catches
Uncaught(events) ==
    /\ pc' = "crashed"
    /\ trace' = trace \o events

\* AlreadyProcessed with the test of the folder inverted, and with the flag ignored
AlreadyProcessedInverted(name) == (~force_update) /\ ~Exists(name)
AlreadyProcessedIgnoresForce(name) == Exists(name)

\* (not force_update) and os.path.exists(folder_name)
AlreadyProcessed(name) == (~force_update) /\ Exists(name)

\* for filename in filenames: ... up to the hash computation (lines 47-58).
\* response, description, images and i are dead here (each is assigned
\* before it is read again), so the loop head returns them to their
\* initial values.
Iterate ==
    /\ pc = "loop"
    /\ counter < Len(filenames)
    /\ counter' = counter + 1
    /\ LET name == filenames[counter + 1] IN
         IF ~IsCandidate(name)
         THEN pc' = "loop" /\ decision' = "filtered"
         ELSE IF AlreadyProcessed(name)
              THEN pc' = "loop" /\ decision' = "skipped"
              ELSE pc' = "hash" /\ decision' = "process"
    /\ trace' = <<>>
    /\ response' = NoResponse
    /\ description' = None
    /\ images' = <<>>
    /\ i' = 0
    /\ UNCHANGED <<filenames, folders, files, force_update, check_entire_model,
                   run, faults, startFolders, forced, ended, failedEarly, sanVars>>

\* the loop is exhausted: print("Finished processing all files.")
Finish ==
    /\ pc = "loop"
    /\ counter = Len(filenames)
    /\ pc' = "done"
    /\ UNCHANGED <<filenames, folders, files, force_update, check_entire_model,
                   run, counter, decision, response, description, images, i,
                   trace, faults, startFolders, forced, ended, failedEarly, sanVars>>

\* lines 60-66: hashlib.sha256(f.read()) of the candidate file
ComputeHash ==
    /\ pc = "hash"
    /\ \/ /\ NoFault
          /\ pc' = "get_version"
          /\ trace' = Append(trace, Ev("sha256", 0, <<>>, TRUE))
       \/ /\ Fault
          /\ Continue(<<Ev("sha256", 0, <<>>, FALSE), Ev("error", 65, <<>>, TRUE)>>)
    /\ failedEarly' = IF pc' \in {"loop", "crashed"}
                      THEN failedEarly \cup {filename}
                      ELSE failedEarly
    /\ UNCHANGED <<filenames, folders, files, force_update, check_entire_model,
                   run, counter, decision, response, description, images, i,
                   startFolders, forced, ended, sanVars>>

\* lines 72-81: the by-hash request
GetVersion ==
    /\ pc = "get_version"
    /\ \/ \* requests.get raises
          /\ Fault
          /\ Continue(<<Ev("get_version", 0, <<>>, FALSE), Ev("error", 77, <<>>, TRUE)>>)
          /\ UNCHANGED <<response, description>>
       \/ \E r \in NominalVersionResponses \cup FaultyVersionResponses :
            /\ IF r \in NominalVersionResponses THEN NoFault ELSE Fault
            /\ response' = r
            /\ IF ~HasKey(r.json, "description")
               THEN /\ Continue(<<Ev("get_version", 0, <<>>, TRUE), Ev("error", 80, <<>>, TRUE)>>)
                    /\ UNCHANGED description
               ELSE /\ description' = Get(r.json, "description")
                    /\ IF r.status >= 400
                       THEN Continue(<<Ev("get_version", 0, <<>>, TRUE), Ev("error", 77, <<>>, TRUE)>>)
                       ELSE /\ pc' = "scope"
                            /\ trace' = Append(trace, Ev("get_version", 0, <<>>, TRUE))
    /\ failedEarly' = IF pc' \in {"loop", "crashed"}
                      THEN failedEarly \cup {filename}
                      ELSE failedEarly
    /\ UNCHANGED <<filenames, folders, files, force_update, check_entire_model,
                   run, counter, decision, images, i, startFolders, forced, ended,
                   sanVars>>

\* AllImages cut down to the first version's images
FirstVersionImages(versions) ==
    IF versions = <<>> THEN <<>> ELSE Get(Head(versions), "images")

\* [image for version in response.json()['modelVersions'] for image in version['images']]
RECURSIVE AllImages(_)
AllImages(versions) ==
    IF versions = <<>>
    THEN <<>>
    ELSE Get(Head(versions), "images") \o AllImages(Tail(versions))

\* lines 92-105: the owning model's record, all versions' images
GetModel ==
    /\ pc = "scope"
    /\ check_entire_model
    /\ IF ~HasKey(response.json, "modelId")
       THEN /\ Uncaught(<<Ev("uncaught", 93, <<>>, FALSE)>>)
            /\ NoFault
            /\ UNCHANGED <<response, description, images>>
       ELSE LET id == Get(response.json, "modelId") IN
            \/ \* requests.get raises
               /\ Fault
               /\ Continue(<<Ev("get_model", id, <<>>, FALSE), Ev("error", 101, <<>>, TRUE)>>)
               /\ UNCHANGED <<response, description, images>>
            \/ \E r \in NominalModelResponses \cup FaultyModelResponses :
                 /\ IF r \in NominalModelResponses THEN NoFault ELSE Fault
                 /\ response' = r
                 /\ IF ~HasKey(r.json, "description")
                    THEN /\ Continue(<<Ev("get_model", id, <<>>, TRUE), Ev("error", 104, <<>>, TRUE)>>)
                         /\ UNCHANGED <<description, images>>
                    ELSE /\ description' = Get(r.json, "description")
                         /\ IF \/ ~HasKey(r.json, "modelVersions")
                               \/ \E k \in 1..Len(Get(r.json, "modelVersions")) :
                                    ~HasKey(Get(r.json, "modelVersions")[k], "images")
                            THEN /\ Continue(<<Ev("get_model", id, <<>>, TRUE),
                                               Ev("error", 104, <<>>, TRUE)>>)
                                 /\ UNCHANGED images
                            ELSE /\ images' = AllImages(Get(r.json, "modelVersions"))
                                 /\ IF r.status >= 400
                                    THEN Continue(<<Ev("get_model", id, <<>>, TRUE),
                                                    Ev("error", 101, <<>>, TRUE)>>)
                                    ELSE /\ pc' = "makedirs"
                                         /\ trace' = Append(trace, Ev("get_model", id, <<>>, TRUE))
    /\ failedEarly' = IF pc' \in {"loop", "crashed"}
                      THEN failedEarly \cup {filename}
                      ELSE failedEarly
    /\ UNCHANGED <<filenames, folders, files, force_update, check_entire_model,
                   run, counter, decision, i, startFolders, forced, ended, sanVars>>

\* lines 106-107: the version record's own images
UseVersionImages ==
    /\ pc = "scope"
    /\ ~check_entire_model
    /\ IF ~HasKey(response.json, "images")
       THEN /\ Uncaught(<<Ev("uncaught", 107, <<>>, FALSE)>>)
            /\ UNCHANGED images
       ELSE /\ images' = Get(response.json, "images")
            /\ pc' = "makedirs"
            /\ UNCHANGED trace
    /\ failedEarly' = IF pc' \in {"loop", "crashed"}
                      THEN failedEarly \cup {filename}
                      ELSE failedEarly
    /\ UNCHANGED <<filenames, folders, files, force_update, check_entire_model,
                   run, counter, decision, response, description, i, faults,
                   startFolders, forced, ended, sanVars>>

\* line 111: os.makedirs(folder_name, exist_ok=True)
MakeFolder ==
    /\ pc = "makedirs"
    /\ folders' = folders \cup {file_noext(filename)}
    /\ trace' = Append(trace, Ev("makedirs", 0, <<>>, TRUE))
    /\ pc' = "write_md"
    /\ UNCHANGED <<filenames, files, force_update, check_entire_model, run,
                   counter, decision, response, description, images, i, faults,
                   startFolders, forced, ended, failedEarly, sanVars>>

\* md_description with only the empty string guarded: None is formatted as text
md_descriptionOfNone(d) ==
    IF d = None THEN "None" ELSE IF d # Some("") THEN Markdownify(d[1]) ELSE ""

\* markdownify.markdownify(description, ...) if description else ""
md_description(d) == IF d # None /\ d # Some("") THEN Markdownify(d[1]) ELSE ""

\* lines 113-121: the description file
WriteDescription ==
    /\ pc = "write_md"
    /\ \/ /\ NoFault
          /\ files' = files \cup {MdPath(filename)}
          /\ trace' = Append(trace, Ev("write_md", 0, <<md_description(description)>>, TRUE))
          /\ pc' = "images"
       \/ /\ Fault
          /\ Continue(<<Ev("write_md", 0, <<>>, FALSE), Ev("error", 120, <<>>, TRUE)>>)
          /\ UNCHANGED files
    /\ UNCHANGED <<filenames, folders, force_update, check_entire_model, run,
                   counter, decision, response, description, images, i,
                   startFolders, forced, ended, failedEarly, sanVars>>

\* re.sub(r'/width=\d+/', f'/width={image["width"]}/', image["url"])
RewriteUrl(image) == [Get(image, "url") EXCEPT !.width = Get(image, "width")]

\* the index enumerate() gives the image at offset n of the list
ImageIndex(n) == n

\* SkipImage with break in place of continue
SkipImageBreaks(events) ==
    /\ trace' = trace \o events
    /\ i' = Len(images)
    /\ UNCHANGED <<files, pc>>

\* except ...: print(...); continue, for the image loop (lines 130-132, 142-144)
SkipImage(events) ==
    /\ trace' = trace \o events
    /\ i' = i + 1
    /\ UNCHANGED <<files, pc>>

\* lines 124-144: one iteration of the image loop
SaveImage ==
    /\ pc = "images"
    /\ i < Len(images)
    /\ LET image == images[i + 1]
           n == ImageIndex(i)
       IN
         IF ~HasKey(image, "width") \/ ~HasKey(image, "url")
         THEN /\ Uncaught(<<Ev("uncaught", 126, <<>>, FALSE)>>)
              /\ NoFault
              /\ UNCHANGED <<files, i>>
         ELSE \/ \* requests.get raises, or raise_for_status does (lines 127-132)
                 /\ Fault
                 /\ SkipImage(<<Ev("get_image", n, <<RewriteUrl(image)>>, FALSE),
                                Ev("error", 131, <<>>, TRUE)>>)
              \/ IF ~HasKey(image, "hash")
                 THEN /\ Uncaught(<<Ev("get_image", n, <<RewriteUrl(image)>>, TRUE),
                                    Ev("uncaught", 134, <<>>, FALSE)>>)
                      /\ NoFault
                      /\ UNCHANGED <<files, i>>
                 ELSE LET path == ImagePath(filename, n, Get(image, "hash")) IN
                      \/ /\ NoFault
                         /\ files' = files \cup {path}
                         /\ trace' = trace \o <<Ev("get_image", n, <<RewriteUrl(image)>>, TRUE),
                                                Ev("write_image", n, <<path>>, TRUE)>>
                         /\ i' = i + 1
                         /\ UNCHANGED pc
                      \/ /\ Fault
                         /\ SkipImage(<<Ev("get_image", n, <<RewriteUrl(image)>>, TRUE),
                                        Ev("write_image", n, <<path>>, FALSE),
                                        Ev("error", 143, <<>>, TRUE)>>)
    /\ UNCHANGED <<filenames, folders, force_update, check_entire_model, run,
                   counter, decision, response, description, images,
                   startFolders, forced, ended, failedEarly, sanVars>>

\* the image loop is exhausted: back to the loop over the directory
EndImages ==
    /\ pc = "images"
    /\ i = Len(images)
    /\ pc' = "loop"
    /\ UNCHANGED <<filenames, folders, files, force_update, check_entire_model,
                   run, counter, decision, response, description, images, i,
                   trace, faults, startFolders, forced, ended, failedEarly, sanVars>>

\* lines 166-171: the program is invoked again on the same directory
StartRun ==
    /\ pc \in {"done", "crashed"}
    /\ run < MaxRuns
    /\ run' = run + 1
    /\ \E f \in BOOLEAN, c \in BOOLEAN :
         /\ force_update' = f
         /\ check_entire_model' = c
         /\ forced' = Append(forced, f)
    /\ pc' = "loop"
    /\ counter' = 0
    /\ decision' = "none"
    /\ trace' = <<>>
    /\ response' = NoResponse
    /\ description' = None
    /\ images' = <<>>
    /\ i' = 0
    /\ startFolders' = folders
    /\ ended' = Append(ended, pc)
    /\ failedEarly' = {}
    /\ UNCHANGED <<filenames, folders, files, faults, sanVars>>

SanIdle ==
    /\ san_string = <<>>
    /\ san_length = 0
    /\ san_once = None
    /\ san_twice = None

Init ==
    /\ filenames \in Listings
    /\ folders \in InitialFolders
    /\ files = {}
    /\ force_update \in BOOLEAN
    /\ check_entire_model \in BOOLEAN
    /\ run = 1
    /\ pc = "loop"
    /\ counter = 0
    /\ decision = "none"
    /\ response = NoResponse
    /\ description = None
    /\ images = <<>>
    /\ i = 0
    /\ trace = <<>>
    /\ faults = 0
    /\ startFolders = folders
    /\ forced = <<force_update>>
    /\ ended = <<>>
    /\ failedEarly = {}
    /\ SanIdle

Next ==
    \/ Iterate
    \/ Finish
    \/ ComputeHash
    \/ GetVersion
    \/ GetModel
    \/ UseVersionImages
    \/ MakeFolder
    \/ WriteDescription
    \/ SaveImage
    \/ EndImages
    \/ StartRun

Spec == Init /\ [][Next]_vars

(***************************************************************************)
(* format_storage_hash on its own: every string over SanChars of at most   *)
(* MaxStrLen characters, with every length from 0 to MaxBound              *)
(***************************************************************************)
\* '-', '.', '9', ':', 'A', '_', 'z', '{': both sides of the pattern's ranges
SanChars == {45, 46, 57, 58, 65, 95, 122, 123}

SanStrings == UNION { [1..n -> SanChars] : n \in 0..MaxStrLen }

InitSan ==
    /\ filenames = <<>>
    /\ folders = {}
    /\ files = {}
    /\ force_update = FALSE
    /\ check_entire_model = FALSE
    /\ run = 1
    /\ pc = "done"
    /\ counter = 0
    /\ decision = "none"
    /\ response = NoResponse
    /\ description = None
    /\ images = <<>>
    /\ i = 0
    /\ trace = <<>>
    /\ faults = 0
    /\ startFolders = {}
    /\ forced = <<FALSE>>
    /\ ended = <<>>
    /\ failedEarly = {}
    /\ san_string \in SanStrings
    /\ san_length \in 0..MaxBound
    /\ san_once = None
    /\ san_twice = None

\* formatted = format_storage_hash(string, length)
Sanitize ==
    /\ san_once = None
    /\ san_once' = Some(format_storage_hash(san_string, san_length))
    /\ UNCHANGED <<mainVars, san_string, san_length, san_twice>>

\* format_storage_hash(formatted, length)
SanitizeAgain ==
    /\ san_once # None
    /\ san_twice = None
    /\ san_twice' = Some(format_storage_hash(san_once[1], san_length))
    /\ UNCHANGED <<mainVars, san_string, san_length, san_once>>

NextSan ==
    \/ Sanitize
    \/ SanitizeAgain

SpecSan == InitSan /\ [][NextSan]_vars

(***************************************************************************)
(* Properties                                                              *)
(***************************************************************************)
\* the positions of the trace that hold a call of op that returned
Returned(op) == { k \in 1..Len(trace) : trace[k].op = op /\ trace[k].ok }

Did(op) == Returned(op) # {}

\* an error was printed, or an exception escaped, for the current entry
NoErrors == \A k \in 1..Len(trace) : trace[k].op \notin {"error", "uncaught"}

\* the current entry issued no request and touched no folder or file
NoNetworkOrWrite ==
    \A k \in 1..Len(trace) :
        trace[k].op \notin {"get_version", "get_model", "get_image",
                            "makedirs", "write_md", "write_image"}

\* image n of the current entry was requested, exactly once
Requested(n) ==
    Cardinality({ k \in 1..Len(trace) :
                    trace[k].op = "get_image" /\ trace[k].arg = n }) = 1

\* the download or the write of image n failed and was reported
FailedAt(n) ==
    \E k \in 1..(Len(trace) - 1) :
        /\ trace[k].op \in {"get_image", "write_image"}
        /\ trace[k].arg = n
        /\ trace[k + 1].op = "error"

\* image n of the current entry was written under index n and its own hash
Saved(n) ==
    LET path == [dir |-> filename.stem, idx |-> n,
                 hash |-> format_storage_hash(Get(images[n + 1], "hash"), HashLen),
                 ext |-> "png"]
    IN /\ path \in files
       /\ \E k \in Returned("write_image") :
            trace[k].arg = n /\ trace[k].data = <<path>>

\* the characters the sanitizer's contract allows: [0-9a-zA-Z_-]
SafeChars == (48..57) \cup (97..122) \cup (65..90) \cup {95, 45}

\* C8: format_storage_hash(string, length) holds only characters of
\* [0-9a-zA-Z_-] and at most length of them; it is the string's first
\* min(len, length) characters with every character outside the set replaced
\* by '_' at its own position; a clean string no longer than length comes
\* back unchanged; and sanitizing the result again changes nothing.
C8_Sanitizer ==
    /\ san_once # None =>
         LET out == san_once[1] IN
         /\ \A k \in 1..Len(out) : out[k] \in SafeChars
         /\ Len(out) <= san_length
         /\ Len(out) = Min(Len(san_string), san_length)
         /\ \A k \in 1..Len(out) :
              out[k] = IF san_string[k] \in SafeChars THEN san_string[k] ELSE 95
         /\ ( /\ \A k \in 1..Len(san_string) : san_string[k] \in SafeChars
              /\ Len(san_string) <= san_length )
            => out = san_string
    /\ san_twice # None => san_twice = san_once

\* a string with a character outside the set, longer than the bound, sanitized twice
C8_Witness ==
    /\ san_twice # None
    /\ san_length > 0
    /\ Len(san_string) > san_length
    /\ \E k \in 1..san_length : san_string[k] \notin SafeChars
    /\ \E k \in 1..san_length : san_string[k] \in SafeChars

\* C1: no failure that happens before the preview folder is written to aborts
\* the run: main() is aborted, if at all, only once the folder has been made.
C1_EarlyFailureNeverAbortsRun ==
    pc = "crashed" => \E k \in 1..Len(trace) : trace[k].op = "makedirs"

\* C2: a reported download or write failure of one image skips that image
\* only: every image of the list is requested exactly once, every image that
\* did not fail is saved under its own index, and the loop over the directory
\* goes on; main() is aborted only by an exception that no handler catches.
C2_ImageFailureSkipsOnlyThatImage ==
    /\ (pc \in {"images", "loop", "done"} /\ Did("write_md")) =>
         /\ pc \in {"loop", "done"} => i = Len(images)
         /\ \A n \in 0..(i - 1) : Requested(n) /\ (FailedAt(n) \/ Saved(n))
    /\ pc = "crashed" => trace[Len(trace)].op = "uncaught"

\* image 1 of 3 failed, images 0 and 2 are saved, and the run has finished
C2_Witness ==
    /\ pc = "done"
    /\ Len(images) = 3
    /\ FailedAt(1)
    /\ Saved(0)
    /\ Saved(2)

\* C5: with force_update unset, the loop head passes over a candidate file
\* whose preview folder exists: the step computes no hash, issues no request,
\* leaves the folders and files as they are, reports nothing and goes on to the
\* next entry.
C5_ExistingFolderIsSkipped ==
    [][ ( /\ pc = "loop"
          /\ counter < Len(filenames)
          /\ IsCandidate(filenames[counter + 1])
          /\ ~force_update
          /\ filenames[counter + 1].stem \in folders )
        => ( /\ pc' = "loop"
             /\ counter' = counter + 1
             /\ decision' = "skipped"
             /\ trace' = <<>>
             /\ folders' = folders
             /\ files' = files ) ]_vars

\* a candidate file was passed over because its folder exists
C5_Witness ==
    /\ pc = "loop"
    /\ decision = "skipped"
    /\ ~force_update
    /\ filename.stem \in folders
    /\ trace = <<>>

C4_SkipIndependentOfOtherFiles ==
    (counter >= 1 /\ decision = "skipped") => filename.stem \in startFolders

\* the number of images in the versions before version v
RECURSIVE ImagesBefore(_, _)
ImagesBefore(versions, v) ==
    IF v = 1
    THEN 0
    ELSE ImagesBefore(versions, v - 1) + Len(Get(versions[v - 1], "images"))

\* the image list is in use: the metadata of the current entry has been retrieved
PastScope == pc = "makedirs" \/ \E k \in 1..Len(trace) : trace[k].op = "makedirs"

\* C6: in version-scoped mode the image list is the list of the version record;
\* in model-scoped mode image j of version v sits at offset
\* (images of the versions before v) + j and the list holds nothing else.
\* Every image written is written under its offset in that list and its own
\* sanitized hash, and a pass without failures writes every image of the list.
C6_ImageSetPerMode ==
    PastScope =>
      /\ IF check_entire_model
         THEN LET versions == Get(response.json, "modelVersions") IN
              /\ Len(images) = ImagesBefore(versions, Len(versions) + 1)
              /\ \A v \in 1..Len(versions) :
                   \A j \in 1..Len(Get(versions[v], "images")) :
                     images[ImagesBefore(versions, v) + j] = Get(versions[v], "images")[j]
         ELSE /\ Len(images) = Len(Get(response.json, "images"))
              /\ \A j \in 1..Len(images) : images[j] = Get(response.json, "images")[j]
      /\ \A k \in Returned("write_image") :
           /\ trace[k].arg \in 0..(Len(images) - 1)
           /\ Saved(trace[k].arg)
      /\ (pc \in {"loop", "done"} /\ NoErrors) =>
           /\ Cardinality(Returned("write_image")) = Len(images)
           /\ \A n \in 0..(Len(images) - 1) : Saved(n)

\* model-scoped mode, two versions of one image each: two files, indexed 0 and 1
C6_Witness ==
    /\ check_entire_model
    /\ pc = "loop"
    /\ PastScope
    /\ NoErrors
    /\ Len(Get(response.json, "modelVersions")) = 2
    /\ \A v \in 1..2 : Len(Get(Get(response.json, "modelVersions")[v], "images")) = 1
    /\ Cardinality(Returned("write_image")) = 2
    /\ Saved(0)
    /\ Saved(1)

\* the calls a pass without failures makes for the current entry, in order
FullPass ==
    LET head == IF check_entire_model
                THEN <<"sha256", "get_version", "get_model", "makedirs", "write_md">>
                ELSE <<"sha256", "get_version", "makedirs", "write_md">>
        h == Len(head)
    IN /\ Len(trace) = h + 2 * Len(images)
       /\ \A k \in 1..h : trace[k].op = head[k] /\ trace[k].ok
       /\ \A n \in 0..(Len(images) - 1) :
            /\ trace[h + 2 * n + 1].op = "get_image"
            /\ trace[h + 2 * n + 1].arg = n
            /\ trace[h + 2 * n + 2].op = "write_image"
            /\ Saved(n)
       /\ [dir |-> filename.stem, idx |-> -1, hash |-> <<>>, ext |-> "md"] \in files
       /\ filename.stem \in folders

\* C7: with force_update set the loop head sends every candidate file to the
\* hash computation, whether or not its preview folder exists, and a forced
\* pass that meets no failure computes the hash, issues the metadata
\* request(s), makes the folder, writes the description and requests and
\* writes every image, at the paths fixed by the file name and the records.
C7_ForceUpdateReprocesses ==
    /\ [][ ( /\ pc = "loop"
             /\ force_update
             /\ counter < Len(filenames)
             /\ IsCandidate(filenames[counter + 1]) )
           => (pc' = "hash" /\ decision' = "process") ]_vars
    /\ []( ( /\ force_update
             /\ pc \in {"loop", "done"}
             /\ decision = "process"
             /\ NoErrors )
           => FullPass )

\* a forced second run has processed a file whose folder the run found in place
C7_Witness ==
    /\ run = 2
    /\ forced = <<TRUE, TRUE>>
    /\ ended = <<"done">>
    /\ pc = "done"
    /\ decision = "process"
    /\ filename.stem \in startFolders
    /\ NoErrors
    /\ Len(images) >= 1
    /\ FullPass

\* the entry was processed to the end of its image loop or dropped by a handler
EntryFinished == pc = "loop" /\ decision = "process"

\* C9 as stated: a record retrieved with status 200 whose description is
\* null, empty or absent, with no call failing, gets its folder and an empty
\* description file.
C9_NoDescriptionGivesEmptyFile ==
    ( /\ EntryFinished
      /\ response # NoResponse
      /\ response.status = 200
      /\ \/ ~HasKey(response.json, "description")
         \/ Get(response.json, "description") \in {None, Some("")}
      /\ \A k \in 1..Len(trace) : trace[k].ok )
    => /\ Did("makedirs")
       /\ \E k \in Returned("write_md") : trace[k].data = <<"">>

\* C9 as amended: when the environment injects no failure and the retrieved
\* description is null or empty, nothing is reported, the folder is made, an
\* empty description file is written and every image is requested.
C9_NullOrEmptyDescriptionGivesEmptyFile ==
    ( /\ EntryFinished
      /\ faults = 0
      /\ description \in {None, Some("")} )
    => /\ NoErrors
       /\ Did("makedirs")
       /\ \E k \in Returned("write_md") : trace[k].data = <<"">>
       /\ [dir |-> filename.stem, idx |-> -1, hash |-> <<>>, ext |-> "md"] \in files
       /\ \A n \in 0..(Len(images) - 1) : Requested(n)

\* a null description, an empty description file, and an image saved after it
C9_Witness ==
    /\ EntryFinished
    /\ faults = 0
    /\ description = None
    /\ \E k \in Returned("write_md") : trace[k].data = <<"">>
    /\ Len(images) >= 1
    /\ Saved(0)

\* C10: a candidate file whose hash or metadata retrieval failed in a run, and
\* whose preview folder was not there when the run started, has no preview
\* folder when the run has finished.
C10_FailedFileHasNoFolder ==
    pc = "done" =>
      \A f \in failedEarly : f.stem \in startFolders \/ f.stem \notin folders

\* the order of the side effects of one entry: the folder is made after the
\* hash and the metadata request(s) returned, the description is written
\* after the folder is made, and every image request comes after that write
OrderOfSideEffects ==
    \A k \in 1..Len(trace) :
        /\ trace[k].op = "makedirs" =>
             /\ \A e \in 1..(k - 1) : trace[e].ok /\ trace[e].op \notin {"error", "uncaught"}
             /\ \E e \in 1..(k - 1) : trace[e].op = "sha256"
             /\ \E e \in 1..(k - 1) : trace[e].op = "get_version"
             /\ check_entire_model => \E e \in 1..(k - 1) : trace[e].op = "get_model"
        /\ trace[k].op = "get_model" => \E e \in 1..(k - 1) : trace[e].op = "get_version" /\ trace[e].ok
        /\ trace[k].op = "write_md" => \E e \in 1..(k - 1) : trace[e].op = "makedirs"
        /\ trace[k].op \in {"get_image", "write_image"} =>
             \E e \in 1..(k - 1) : trace[e].op = "write_md" /\ trace[e].ok

====
